---- MODULE Spec2Model ----
(***************************************************************************)
(* Model of the raw-pool trading path of AgentX,                           *)
(* src/agentx/tools/use_raydium.py: RaydiumManager.buy_with_raydium and    *)
(* RaydiumManager.sell_with_raydium.  One call runs from its first line to *)
(* its return; every network call of the code is one step of the model,   *)
(* and may raise.  The helpers imported from agentx.utils.raydium          *)
(* (fetch_pool_keys, get_token_reserves, get_token_balance,                *)
(* sol_for_tokens, tokens_for_sol, make_swap_instruction, confirm_txn)     *)
(* are not part of the source tree; they are modelled from the design      *)
(* document (sections 4.1, 4.2, 4.4 and 9).                                *)
(*                                                                         *)
(* Python floats are modelled as exact rationals [n, d]; int(x) is         *)
(* truncation toward zero.                                                 *)
(***************************************************************************)
EXTENDS Integers, Sequences, FiniteSets, TLC

\* ------------------------------------------------------------------ bounds
\* calls of buy/sell made one after the other in one behaviour
MaxCalls == 2
\* sol_in is the float n / SolInDen, n in 0..MaxSolNum
MaxSolNum == 1
SolInDen == 4
\* wallet token balance (whole units) is drawn from 0..MaxBalance, or None
MaxBalance == 2
\* rent-exempt minimum answered by the network: 1..MaxRent
MaxRent == 2
\* seeds os.urandom can produce: 1..NumSeeds
NumSeeds == 2
\* confirm_txn gives up after MaxRetries polls that found nothing
MaxRetries == 2

\* SOL_DECIMAL of agentx.utils.raydium.constants (smallest units per SOL),
\* scaled down from 10^9 to keep the arithmetic small
SOL_DECIMAL == 10

SolNums == 0..MaxSolNum
SlippageValues == {-10, 0, 5, 100, 150}
PercentageValues == {0, 50, 100, 101}
\* pool reserves (whole units) and token decimals the network may answer
ReserveValues == {0, 3}
DecimalValues == {1}
BalanceValues == 0..MaxBalance
RentValues == 1..MaxRent
Seeds == 1..NumSeeds

\* ----------------------------------------------------------- float model
Abs(x) == IF x < 0 THEN -x ELSE x

\* a Python float, as an exact rational
Rat(n, d) == [n |-> n, d |-> d]
RInt(i) == Rat(i, 1)
RAdd(a, b) == Rat(a.n * b.d + b.n * a.d, a.d * b.d)
RSub(a, b) == Rat(a.n * b.d - b.n * a.d, a.d * b.d)
RMul(a, b) == Rat(a.n * b.n, a.d * b.d)
\* a / b; the caller checks b # 0 (ZeroDivisionError otherwise)
RDiv(a, b) == Rat(a.n * b.d, a.d * b.n)
RIsZero(a) == a.n = 0
RLeq(a, b) == IF (a.d > 0) = (b.d > 0) THEN a.n * b.d <= b.n * a.d
              ELSE a.n * b.d >= b.n * a.d

\* Python int(x): truncation toward zero
PyInt(a) == LET q == Abs(a.n) \div Abs(a.d)
            IN IF a.n = 0 \/ ((a.n > 0) = (a.d > 0)) THEN q ELSE -q

RECURSIVE Pow10(_)
Pow10(k) == IF k = 0 THEN 1 ELSE 10 * Pow10(k - 1)

\* ------------------------------------------------------------------ state
VARIABLES
  pc,                  \* position of the running call
  op,                  \* "buy" | "sell" | "none"
  sol_in,              \* buy argument: numerator of the float sol_in
  percentage,          \* sell argument
  slippage,            \* argument of both
  pool_keys,           \* "unset" | "None" | "keys"
  token_balance,       \* sell: the float token_balance
  base_reserve, quote_reserve, token_decimal,
  amount_in,           \* integer, smallest units
  amount_out,          \* the float amount_out (unadjusted estimate)
  minimum_amount_out,  \* integer, smallest units
  token_account,       \* "unset" | "existing" | "ata"
  token_account_instr, \* TRUE when an associated-account creation was built
  seed,                \* seed of this call's ephemeral account, 0 before
  balance_needed,      \* rent-exempt minimum read by this call, 0 before
  instructions,        \* the assembled bundle
  anchor,              \* "unset" | "fresh" | "stale": the compiled blockhash
  txn_sig,             \* "none" | "sig"
  retries,             \* polls of confirm_txn that found nothing
  result,              \* "none" | "True" | "False" | "raised"
  netCalls,            \* network calls made by this call, in order
  sendCount,           \* send_transaction calls of this call
  signCount,           \* signatures made by this call
  txFate,              \* what the network does with the submitted bundle
  outcome,             \* how the attempt really ended
  error,               \* the exception the call ran into, "none" otherwise
  calls,               \* calls started so far
  reported             \* <<outcome, result>> of every call that ended

args == <<op, sol_in, percentage, slippage>>
pricing == <<pool_keys, token_balance, base_reserve, quote_reserve, token_decimal,
             amount_in, amount_out, minimum_amount_out>>
bundle == <<token_account, token_account_instr, seed, balance_needed,
            instructions>>
submission == <<anchor, txn_sig, retries, sendCount, signCount, txFate>>
ending == <<result, outcome, error, reported>>
history == <<calls>>
raydium == <<pc, args, pricing, bundle, submission, ending, history, netCalls>>

\* the other parts of the package: each has a specification of its own, and
\* is at rest in the specifications of the others
VARIABLES
  subscribers,         \* EventBus._subscribers: event name -> list of handlers
  published,           \* the latest EventBus.publish call and what it did
  cfgInstance,         \* Config._instance: "None" | "obj"
  cfgConfig,           \* Config._config: key -> value, Absent when not a key
  environ,             \* os.environ, as the value _load_env_vars derives per key
  cfgSet,              \* per key, the value set since the latest load
  cfgLast,             \* the latest Config operation and what it returned
  quote_url,           \* execute_trade: the slippageBps of the quote request
  mathBase, mathQuote, \* swap math: the reserve snapshot
  mathIn, mathOut,     \* swap math: the input and the output of the latest step
  mathStage,           \* swap math: which function was applied last
  opsPc,               \* client operations: where the running call awaits
  opsCall,             \* client operations: the running call and its arguments
  trace,               \* client operations: events published, network
                       \* answers, calls, returns and raises of the call
  opsResult,           \* client operations: how the call ended
  signatures           \* burn_and_close_multiple: signatures collected

busVars == <<subscribers, published>>
configVars == <<cfgInstance, cfgConfig, environ, cfgSet, cfgLast>>
tradeVars == <<quote_url>>
mathVars == <<mathBase, mathQuote, mathIn, mathOut, mathStage>>
opsVars == <<opsPc, opsCall, trace, opsResult, signatures>>
others == <<busVars, configVars, tradeVars, mathVars, opsVars>>
vars == <<raydium, others>>

\* ------------------------------------------------------------- instructions
Instr(kind, account, sd, lamports, ain, mout, src, dst) ==
  [kind |-> kind, account |-> account, seed |-> sd, lamports |-> lamports,
   amount_in |-> ain, minimum_amount_out |-> mout, src |-> src, dst |-> dst]

\* set_compute_unit_limit(UNIT_BUDGET), set_compute_unit_price(UNIT_PRICE)
SetComputeUnitLimit ==
  Instr("set_compute_unit_limit", "none", 0, 0, 0, 0, "none", "none")
SetComputeUnitPrice ==
  Instr("set_compute_unit_price", "none", 0, 0, 0, 0, "none", "none")
\* create_account_with_seed(to_pubkey = wsol_token_account, seed, lamports)
CreateAccountWithSeed(sd, l) ==
  Instr("create_account_with_seed", "wsol", sd, l, 0, 0, "none", "none")
\* initialize_account(account = wsol_token_account, mint = WSOL)
InitializeAccount(sd) ==
  Instr("initialize_account", "wsol", sd, 0, 0, 0, "none", "none")
\* create_associated_token_account(payer, payer, mint)
CreateAssociatedTokenAccount ==
  Instr("create_associated_token_account", "ata", 0, 0, 0, 0, "none", "none")
\* make_swap_instruction(amount_in, minimum_amount_out, token_account_in,
\* token_account_out, accounts, owner)
MakeSwapInstruction(ain, mout, src, dst, sd) ==
  Instr("swap", "none", sd, 0, ain, mout, src, dst)
\* close_account(account = a, dest = payer, owner = payer)
CloseAccount(a, sd) == Instr("close_account", a, sd, 0, 0, 0, "none", "none")

\* --------------------------------------------------------------- swap math
\* mutant: the exact inverse of native_for_asset, base * sol / (quote - sol)
sol_for_tokens_inverse(sol, base, qt) ==
  IF RIsZero(RSub(RInt(qt), sol)) THEN RInt(0)
  ELSE RDiv(RMul(RInt(base), sol), RSub(RInt(qt), sol))
\* asset_for_native: base - base * quote / (quote + sol); the caller has
\* checked quote + sol # 0
sol_for_tokens(sol, base, qt) ==
  RSub(RInt(base), RDiv(RInt(base * qt), RAdd(RInt(qt), sol)))
\* mutant: the remaining quote reserve is returned, not the amount taken out
tokens_for_sol_remaining(tokens, base, qt) ==
  RDiv(RInt(base * qt), RAdd(RInt(base), tokens))
\* native_for_asset: quote - base * quote / (base + tokens)
tokens_for_sol(tokens, base, qt) ==
  RSub(RInt(qt), RDiv(RInt(base * qt), RAdd(RInt(base), tokens)))

\* slippage_adjustment = 1 - (slippage / 100)
SlippageAdjustment(s) == RSub(RInt(1), Rat(s, 100))
\* buy: amount_in = int(sol_in * SOL_DECIMAL)
BuyAmountIn(sol) == PyInt(RMul(sol, RInt(SOL_DECIMAL)))
\* buy: minimum_amount_out = int(amount_out * slippage_adjustment * 10**token_decimal)
BuyMinimumAmountOut(out, s, dec) ==
  PyInt(RMul(RMul(out, SlippageAdjustment(s)), RInt(Pow10(dec))))
\* mutant: the ephemeral account is funded with the rent minimum only
BuyLamportsRentOnly(needed, ain) == needed
\* buy: lamports = int(balance_needed + amount_in)
BuyLamports(needed, ain) == needed + ain

\* mutant: the ephemeral close is appended only with the account creation
BuyInstructionsCloseWithAta(sd, lamports, withAta, ain, mout, tokenAccount) ==
  <<SetComputeUnitLimit, SetComputeUnitPrice,
    CreateAccountWithSeed(sd, lamports), InitializeAccount(sd)>>
  \o (IF withAta THEN <<CreateAssociatedTokenAccount>> ELSE <<>>)
  \o <<MakeSwapInstruction(ain, mout, "wsol", tokenAccount, sd)>>
  \o (IF withAta THEN <<CloseAccount("wsol", sd)>> ELSE <<>>)
\* buy: the instruction list
BuyInstructions(sd, lamports, withAta, ain, mout, tokenAccount) ==
  <<SetComputeUnitLimit, SetComputeUnitPrice,
    CreateAccountWithSeed(sd, lamports), InitializeAccount(sd)>>
  \o (IF withAta THEN <<CreateAssociatedTokenAccount>> ELSE <<>>)
  \o <<MakeSwapInstruction(ain, mout, "wsol", tokenAccount, sd),
       CloseAccount("wsol", sd)>>

\* ------------------------------------------------------------------- steps
Net(name) == netCalls' = Append(netCalls, name)

\* the call ends: a return statement
Return(res, out, err) ==
  /\ pc' = "done"
  /\ result' = res
  /\ outcome' = out
  /\ error' = err
  /\ reported' = reported \cup {<<out, res>>}

\* mutant: the handler re-raises
ExceptHandlerRaises(out, err) == Return("raised", out, err)
\* except Exception as e: print(...); return False
ExceptHandler(out, err) == Return("False", out, err)

Unset == Rat(0, 1)

RaydiumInit ==
  /\ pc = "idle"
  /\ op = "none" /\ sol_in = 0 /\ percentage = 0 /\ slippage = 0
  /\ pool_keys = "unset" /\ token_balance = Unset
  /\ base_reserve = 0 /\ quote_reserve = 0 /\ token_decimal = 0
  /\ amount_in = 0 /\ amount_out = Unset /\ minimum_amount_out = 0
  /\ token_account = "unset" /\ token_account_instr = FALSE
  /\ seed = 0 /\ balance_needed = 0 /\ instructions = <<>>
  /\ anchor = "unset" /\ txn_sig = "none" /\ retries = 0
  /\ sendCount = 0 /\ signCount = 0 /\ txFate = "none"
  /\ result = "none" /\ outcome = "none" /\ error = "none"
  /\ reported = {}
  /\ calls = 0
  /\ netCalls = <<>>

\* a caller invokes buy_with_raydium(agent, pair_address, sol_in, slippage)
CallBuy ==
  /\ pc \in {"idle", "done"}
  /\ calls < MaxCalls
  /\ \E n \in SolNums, s \in SlippageValues :
       /\ op' = "buy" /\ sol_in' = n /\ slippage' = s /\ percentage' = 0
  /\ pc' = "buy_fetch_pool_keys"
  /\ calls' = calls + 1
  /\ pool_keys' = "unset" /\ token_balance' = Unset
  /\ base_reserve' = 0 /\ quote_reserve' = 0 /\ token_decimal' = 0
  /\ amount_in' = 0 /\ amount_out' = Unset /\ minimum_amount_out' = 0
  /\ token_account' = "unset" /\ token_account_instr' = FALSE
  /\ seed' = 0 /\ balance_needed' = 0 /\ instructions' = <<>>
  /\ anchor' = "unset" /\ txn_sig' = "none" /\ retries' = 0
  /\ sendCount' = 0 /\ signCount' = 0 /\ txFate' = "none"
  /\ result' = "none" /\ outcome' = "none" /\ error' = "none"
  /\ netCalls' = <<>>
  /\ UNCHANGED <<reported, others>>

\* buy, lines 59-62: pool_keys = fetch_pool_keys(pair_address)
BuyFetchPoolKeys ==
  /\ pc = "buy_fetch_pool_keys"
  /\ Net("fetch_pool_keys")
  /\ \/ /\ ExceptHandler("LocalFailure", "PoolReadError")
        /\ UNCHANGED pool_keys
     \/ /\ pool_keys' = "None"
        /\ Return("False", "EarlyExit", "none")
     \/ /\ pool_keys' = "keys"
        /\ pc' = "buy_get_token_reserves"
        /\ UNCHANGED ending
  /\ UNCHANGED <<args, token_balance, base_reserve, quote_reserve,
                 token_decimal, amount_in, amount_out, minimum_amount_out,
                 bundle, submission, history, others>>

\* buy, lines 64-70: reserves read, amounts computed
BuyGetTokenReserves ==
  /\ pc = "buy_get_token_reserves"
  /\ Net("get_token_reserves")
  /\ \/ /\ ExceptHandler("LocalFailure", "ReserveReadError")
        /\ UNCHANGED <<base_reserve, quote_reserve, token_decimal, amount_in,
                       amount_out, minimum_amount_out>>
     \/ \E b \in ReserveValues, q \in ReserveValues, d \in DecimalValues :
          LET sol == Rat(sol_in, SolInDen)
          IN /\ base_reserve' = b /\ quote_reserve' = q /\ token_decimal' = d
             /\ amount_in' = BuyAmountIn(sol)
             /\ IF RIsZero(RAdd(RInt(q), sol))
                THEN /\ ExceptHandler("LocalFailure", "InvalidReserveStateError")
                     /\ UNCHANGED <<amount_out, minimum_amount_out>>
                ELSE /\ amount_out' = sol_for_tokens(sol, b, q)
                     /\ minimum_amount_out' =
                          BuyMinimumAmountOut(amount_out', slippage, d)
                     /\ pc' = "buy_get_token_accounts"
                     /\ UNCHANGED ending
  /\ UNCHANGED <<args, pool_keys, token_balance, bundle, submission, history, others>>

\* buy, lines 72-83: client.get_token_accounts_by_owner(...)
\* buy, lines 74-79: the swap's output account
BuyTokenAccount(held) == IF held THEN "existing" ELSE "ata"
\* mutant: the associated token account is created on every buy
BuyTokenAccountInstrAlways(held) == TRUE
\* buy, lines 76-83: token_account_instr is None for an existing account
BuyTokenAccountInstr(held) == ~held

\* buy, lines 72-83: client.get_token_accounts_by_owner(payer, mint)
BuyGetTokenAccounts ==
  /\ pc = "buy_get_token_accounts"
  /\ Net("get_token_accounts_by_owner")
  /\ \/ /\ ExceptHandler("LocalFailure", "RPCError")
        /\ UNCHANGED <<token_account, token_account_instr>>
     \/ /\ \E held \in BOOLEAN :
             /\ token_account' = BuyTokenAccount(held)
             /\ token_account_instr' = BuyTokenAccountInstr(held)
        /\ pc' = "buy_get_min_balance"
        /\ UNCHANGED ending
  /\ UNCHANGED <<args, pricing, seed, balance_needed, instructions,
                 submission, history, others>>

\* buy, lines 85-88: seed drawn, rent-exempt minimum read
BuyGetMinBalance ==
  /\ pc = "buy_get_min_balance"
  /\ Net("get_min_balance_rent_for_exempt")
  /\ \E sd \in Seeds :
       /\ seed' = sd
       /\ \/ /\ ExceptHandler("LocalFailure", "RPCError")
             /\ UNCHANGED balance_needed
          \/ /\ \E rent \in RentValues : balance_needed' = rent
             /\ pc' = "buy_assemble"
             /\ UNCHANGED ending
  /\ UNCHANGED <<args, pricing, token_account, token_account_instr,
                 instructions, submission, history, others>>

\* buy, lines 90-142: the instructions are built and put in order
BuyAssemble ==
  /\ pc = "buy_assemble"
  /\ \/ /\ ExceptHandler("LocalFailure", "AssemblyError")
        /\ UNCHANGED instructions
     \/ /\ instructions' =
             BuyInstructions(seed, BuyLamports(balance_needed, amount_in),
                             token_account_instr, amount_in,
                             minimum_amount_out, token_account)
        /\ pc' = "buy_compile"
        /\ UNCHANGED ending
  /\ UNCHANGED <<args, pricing, token_account, token_account_instr, seed,
                 balance_needed, submission, history, others, netCalls>>

\* lines 144-150 / 268-274: client.get_latest_blockhash(), MessageV0.try_compile
Compile(next) ==
  /\ Net("get_latest_blockhash")
  /\ \/ /\ ExceptHandler("LocalFailure", "RPCError")
        /\ UNCHANGED anchor
     \/ /\ anchor' = "fresh"
        /\ pc' = next
        /\ UNCHANGED ending
  /\ UNCHANGED <<args, pricing, bundle, txn_sig, retries, sendCount,
                 signCount, txFate, history, others>>

\* what the network may do with a bundle handed to it with skip_preflight:
\* a bundle compiled against an expired blockhash is never processed
TxFates(a) == IF a = "stale" THEN {"dropped"} ELSE {"ok", "err", "dropped"}

\* mutant: a failed submission is tried again
SendAgain(next) ==
  \/ /\ signCount' = signCount + 1
     /\ ExceptHandler("LocalFailure", "SigningError")
     /\ UNCHANGED <<args, pricing, bundle, anchor, txn_sig, retries, sendCount,
                    txFate, history, others, netCalls>>
  \/ /\ signCount' = signCount + 1
     /\ sendCount' = sendCount + 1
     /\ Net("send_transaction")
     /\ \/ /\ sendCount < 2
           /\ UNCHANGED <<pc, ending, txn_sig, txFate>>
        \/ /\ txn_sig' = "sig"
           /\ txFate' \in TxFates(anchor)
           /\ pc' = next
           /\ UNCHANGED ending
     /\ UNCHANGED <<args, pricing, bundle, anchor, retries, history, others>>

\* mutant: the compiled message is submitted without the wallet's signature
SendUnsigned(next) ==
  /\ sendCount' = sendCount + 1
  /\ Net("send_transaction")
  /\ \/ /\ ExceptHandler("Rejected", "SubmissionRejectedError")
        /\ UNCHANGED <<txn_sig, txFate>>
     \/ /\ txn_sig' = "sig"
        /\ txFate' \in TxFates(anchor)
        /\ pc' = next
        /\ UNCHANGED ending
  /\ UNCHANGED <<args, pricing, bundle, anchor, retries, signCount, history,
                 others>>
\* lines 152-156 / 276-280: VersionedTransaction(compiled_message, [payer_keypair])
\* signs; client.send_transaction(txn, opts = TxOpts(skip_preflight = True))
Send(next) ==
  \/ /\ signCount' = signCount + 1
     /\ ExceptHandler("LocalFailure", "SigningError")
     /\ UNCHANGED <<args, pricing, bundle, anchor, txn_sig, retries, sendCount,
                    txFate, history, others, netCalls>>
  \/ /\ signCount' = signCount + 1
     /\ sendCount' = sendCount + 1
     /\ Net("send_transaction")
     /\ \/ /\ ExceptHandler("Rejected", "SubmissionRejectedError")
           /\ UNCHANGED <<txn_sig, txFate>>
        \/ /\ txn_sig' = "sig"
           /\ txFate' \in TxFates(anchor)
           /\ pc' = next
           /\ UNCHANGED ending
     /\ UNCHANGED <<args, pricing, bundle, anchor, retries, history, others>>

\* the blockhash the bundle was compiled against expires before submission
AnchorExpires ==
  /\ pc \in {"buy_send", "sell_send"}
  /\ anchor = "fresh"
  /\ anchor' = "stale"
  /\ UNCHANGED <<pc, args, pricing, bundle, txn_sig, retries, sendCount,
                 signCount, txFate, ending, history, others, netCalls>>

\* confirm_txn's value: a bare boolean, True only for a transaction found
\* without an error
ConfirmTxnValue(status) == IF status = "ok" THEN "True" ELSE "False"
\* how the attempt really ended, by what confirm_txn saw
ConfirmTxnOutcome(status) ==
  CASE status = "ok" -> "Confirmed"
    [] status = "err" -> "Rejected"
    [] OTHER -> "TimedOut"

\* mutant: the call reports success once the bundle was submitted
ReturnConfirmedAlways(confirmed) == "True"
\* line 159: return confirm_txn(txn_sig) / lines 284-287: return confirmed
ReturnConfirmed(confirmed) == confirmed

\* confirm_txn(txn_sig): one poll of the transaction's status per step
Confirm ==
  /\ txn_sig = "sig"
  /\ Net("get_transaction")
  /\ \/ /\ txFate \in {"ok", "err"}
        /\ Return(ReturnConfirmed(ConfirmTxnValue(txFate)),
                  ConfirmTxnOutcome(txFate), "none")
        /\ UNCHANGED retries
     \/ /\ retries' = retries + 1
        /\ IF retries' >= MaxRetries
           THEN Return(ReturnConfirmed(ConfirmTxnValue("timeout")),
                       ConfirmTxnOutcome("timeout"), "none")
           ELSE UNCHANGED <<pc, ending>>
  /\ UNCHANGED <<args, pricing, bundle, anchor, txn_sig, sendCount, signCount,
                 txFate, history, others>>

BuyCompile == pc = "buy_compile" /\ Compile("buy_send")
BuySend == pc = "buy_send" /\ Send("buy_confirm")
BuyConfirm == pc = "buy_confirm" /\ Confirm

\* sell: token_balance = token_balance * (percentage / 100)
SellTokenBalance(balance, pct) == RMul(RInt(balance), Rat(pct, 100))
\* sell: minimum_amount_out = int(amount_out * slippage_adjustment * SOL_DECIMAL)
SellMinimumAmountOut(out, s) ==
  PyInt(RMul(RMul(out, SlippageAdjustment(s)), RInt(SOL_DECIMAL)))
\* sell: amount_in = int(token_balance * 10**token_decimal)
SellAmountIn(tokens, dec) == PyInt(RMul(tokens, RInt(Pow10(dec))))
\* sell: lamports = int(balance_needed)
SellLamports(needed) == needed
\* mutant: the source token account is closed on every sell
SellClosesTokenAccountAlways(pct) == TRUE
\* sell: if percentage == 100, the source token account is closed too
SellClosesTokenAccount(pct) == pct = 100

\* mutant: the compute-budget settings follow the ephemeral account's setup
SellInstructionsBudgetLate(sd, lamports, ain, mout, tokenAccount, pct) ==
  <<CreateAccountWithSeed(sd, lamports), InitializeAccount(sd),
    SetComputeUnitLimit, SetComputeUnitPrice,
    MakeSwapInstruction(ain, mout, tokenAccount, "wsol", sd),
    CloseAccount("wsol", sd)>>
  \o (IF SellClosesTokenAccount(pct)
      THEN <<CloseAccount(tokenAccount, 0)>> ELSE <<>>)
\* sell: the instruction list
SellInstructions(sd, lamports, ain, mout, tokenAccount, pct) ==
  <<SetComputeUnitLimit, SetComputeUnitPrice,
    CreateAccountWithSeed(sd, lamports), InitializeAccount(sd),
    MakeSwapInstruction(ain, mout, tokenAccount, "wsol", sd),
    CloseAccount("wsol", sd)>>
  \o (IF SellClosesTokenAccount(pct)
      THEN <<CloseAccount(tokenAccount, 0)>> ELSE <<>>)

\* a caller invokes sell_with_raydium(agent, pair_address, percentage, slippage)
CallSell ==
  /\ pc \in {"idle", "done"}
  /\ calls < MaxCalls
  /\ \E p \in PercentageValues, s \in SlippageValues :
       /\ op' = "sell" /\ percentage' = p /\ slippage' = s /\ sol_in' = 0
  /\ pc' = "sell_check_percentage"
  /\ calls' = calls + 1
  /\ pool_keys' = "unset" /\ token_balance' = Unset
  /\ base_reserve' = 0 /\ quote_reserve' = 0 /\ token_decimal' = 0
  /\ amount_in' = 0 /\ amount_out' = Unset /\ minimum_amount_out' = 0
  /\ token_account' = "unset" /\ token_account_instr' = FALSE
  /\ seed' = 0 /\ balance_needed' = 0 /\ instructions' = <<>>
  /\ anchor' = "unset" /\ txn_sig' = "none" /\ retries' = 0
  /\ sendCount' = 0 /\ signCount' = 0 /\ txFate' = "none"
  /\ result' = "none" /\ outcome' = "none" /\ error' = "none"
  /\ netCalls' = <<>>
  /\ UNCHANGED <<reported, others>>

\* mutant: only the upper end of the range is checked
PercentageValidUpTo(p) == p <= 100
\* sell, line 183: 1 <= percentage <= 100
PercentageValid(p) == 1 <= p /\ p <= 100

\* sell, lines 183-185: if not (1 <= percentage <= 100): return False
SellCheckPercentage ==
  /\ pc = "sell_check_percentage"
  /\ IF ~PercentageValid(percentage)
     THEN Return("False", "EarlyExit", "none")
     ELSE pc' = "sell_fetch_pool_keys" /\ UNCHANGED ending
  /\ UNCHANGED <<args, pricing, bundle, submission, history, others, netCalls>>

\* sell, lines 187-192: pool_keys = fetch_pool_keys(pair_address)
SellFetchPoolKeys ==
  /\ pc = "sell_fetch_pool_keys"
  /\ Net("fetch_pool_keys")
  /\ \/ /\ ExceptHandler("LocalFailure", "PoolReadError")
        /\ UNCHANGED pool_keys
     \/ /\ pool_keys' = "None"
        /\ Return("False", "EarlyExit", "none")
     \/ /\ pool_keys' = "keys"
        /\ pc' = "sell_get_token_balance"
        /\ UNCHANGED ending
  /\ UNCHANGED <<args, token_balance, base_reserve, quote_reserve,
                 token_decimal, amount_in, amount_out, minimum_amount_out,
                 bundle, submission, history, others>>

\* sell, lines 194-205: token_balance = get_token_balance(str(mint))
SellGetTokenBalance ==
  /\ pc = "sell_get_token_balance"
  /\ Net("get_token_balance")
  /\ \/ /\ ExceptHandler("LocalFailure", "RPCError")
        /\ UNCHANGED token_balance
     \/ \E isNone \in BOOLEAN, b \in BalanceValues :
          IF isNone \/ b = 0
          THEN /\ Return("False", "EarlyExit", "none")
               /\ UNCHANGED token_balance
          ELSE /\ token_balance' = SellTokenBalance(b, percentage)
               /\ pc' = "sell_get_token_reserves"
               /\ UNCHANGED ending
  /\ UNCHANGED <<args, pool_keys, base_reserve, quote_reserve, token_decimal,
                 amount_in, amount_out, minimum_amount_out, bundle,
                 submission, history, others>>

\* sell, lines 207-218: reserves read, amounts computed
SellGetTokenReserves ==
  /\ pc = "sell_get_token_reserves"
  /\ Net("get_token_reserves")
  /\ \/ /\ ExceptHandler("LocalFailure", "ReserveReadError")
        /\ UNCHANGED <<base_reserve, quote_reserve, token_decimal, amount_in,
                       amount_out, minimum_amount_out, token_account>>
     \/ \E b \in ReserveValues, q \in ReserveValues, d \in DecimalValues :
          /\ base_reserve' = b /\ quote_reserve' = q /\ token_decimal' = d
          /\ IF RIsZero(RAdd(RInt(b), token_balance))
             THEN /\ ExceptHandler("LocalFailure", "InvalidReserveStateError")
                  /\ UNCHANGED <<amount_in, amount_out, minimum_amount_out,
                                 token_account>>
             ELSE /\ amount_out' = tokens_for_sol(token_balance, b, q)
                  /\ minimum_amount_out' =
                       SellMinimumAmountOut(amount_out', slippage)
                  /\ amount_in' = SellAmountIn(token_balance, d)
                  /\ token_account' = "ata"
                  /\ pc' = "sell_get_min_balance"
                  /\ UNCHANGED ending
  /\ UNCHANGED <<args, pool_keys, token_balance, token_account_instr, seed,
                 balance_needed, instructions, submission, history, others>>

\* sell, lines 220-223: seed drawn, rent-exempt minimum read
SellGetMinBalance ==
  /\ pc = "sell_get_min_balance"
  /\ Net("get_min_balance_rent_for_exempt")
  /\ \E sd \in Seeds :
       /\ seed' = sd
       /\ \/ /\ ExceptHandler("LocalFailure", "RPCError")
             /\ UNCHANGED balance_needed
          \/ /\ \E rent \in RentValues : balance_needed' = rent
             /\ pc' = "sell_assemble"
             /\ UNCHANGED ending
  /\ UNCHANGED <<args, pricing, token_account, token_account_instr,
                 instructions, submission, history, others>>

\* sell, lines 225-266: the instructions are built and put in order
SellAssemble ==
  /\ pc = "sell_assemble"
  /\ \/ /\ ExceptHandler("LocalFailure", "AssemblyError")
        /\ UNCHANGED instructions
     \/ /\ instructions' =
             SellInstructions(seed, SellLamports(balance_needed), amount_in,
                              minimum_amount_out, token_account, percentage)
        /\ pc' = "sell_compile"
        /\ UNCHANGED ending
  /\ UNCHANGED <<args, pricing, token_account, token_account_instr, seed,
                 balance_needed, submission, history, others, netCalls>>

SellCompile == pc = "sell_compile" /\ Compile("sell_send")
SellSend == pc = "sell_send" /\ Send("sell_confirm")
SellConfirm == pc = "sell_confirm" /\ Confirm

Next ==
  \/ CallBuy
  \/ BuyFetchPoolKeys
  \/ BuyGetTokenReserves
  \/ BuyGetTokenAccounts
  \/ BuyGetMinBalance
  \/ BuyAssemble
  \/ BuyCompile
  \/ BuySend
  \/ BuyConfirm
  \/ CallSell
  \/ SellCheckPercentage
  \/ SellFetchPoolKeys
  \/ SellGetTokenBalance
  \/ SellGetTokenReserves
  \/ SellGetMinBalance
  \/ SellAssemble
  \/ SellCompile
  \/ SellSend
  \/ SellConfirm
  \/ AnchorExpires

\* ---------------------------------------------------------------- event bus
\* src/agentx/plugins/event_bus.py
\* handlers one event name may have subscribed at a time
MaxSubscribers == 3
EventNames == {"trade_initiated", "trade_failed"}
Handlers == {"h1", "h2"}
NotCallable == "not_callable"

\* self._subscribers.get(event_name, [])
SubscribersOf(name) ==
  IF name \in DOMAIN subscribers THEN subscribers[name] ELSE <<>>

BusCall(o, name, invoked, raised, printed, escaped) ==
  [op |-> o, name |-> name, invoked |-> invoked, raised |-> raised,
   printed |-> printed, escaped |-> escaped]

\* EventBus.__init__
BusInit ==
  /\ subscribers = <<>>
  /\ published = BusCall("init", "none", <<>>, <<>>, 0, "none")

\* mutant: no try around the handler call, the first exception ends the loop
RECURSIVE PublishLoopNoTry(_, _, _)
PublishLoopNoTry(hs, raises, i) ==
  IF i > Len(hs) THEN [invoked |-> <<>>, printed |-> 0, escaped |-> "none"]
  ELSE IF raises[i]
       THEN [invoked |-> <<hs[i]>>, printed |-> 0, escaped |-> "Exception"]
       ELSE LET after == PublishLoopNoTry(hs, raises, i + 1)
            IN [after EXCEPT !.invoked = <<hs[i]>> \o after.invoked]
\* publish, lines 63-68: for handler in ...: try: handler(event)
\* except Exception: print(...); raises[i] tells whether the i-th call raises
RECURSIVE PublishLoop(_, _, _)
PublishLoop(hs, raises, i) ==
  IF i > Len(hs) THEN [invoked |-> <<>>, printed |-> 0, escaped |-> "none"]
  ELSE LET after == PublishLoop(hs, raises, i + 1)
       IN [invoked |-> <<hs[i]>> \o after.invoked,
           printed |-> after.printed + (IF raises[i] THEN 1 ELSE 0),
           escaped |-> after.escaped]

\* mutant: only the first subscription of the handler is removed
RECURSIVE WithoutFirst(_, _)
WithoutFirst(hs, h) ==
  IF hs = <<>> THEN <<>>
  ELSE IF Head(hs) = h THEN Tail(hs)
       ELSE <<Head(hs)>> \o WithoutFirst(Tail(hs), h)
\* [h for h in self._subscribers[event_name] if h != handler]
RECURSIVE Without(_, _)
Without(hs, h) ==
  IF hs = <<>> THEN <<>>
  ELSE (IF Head(hs) = h THEN <<>> ELSE <<Head(hs)>>) \o Without(Tail(hs), h)

\* EventBus.subscribe(event_name, handler)
BusSubscribe ==
  /\ \E name \in EventNames, h \in Handlers \cup {NotCallable} :
       IF h = NotCallable
       THEN /\ published' = BusCall("subscribe", name, <<>>, <<>>, 0, "ValueError")
            /\ UNCHANGED subscribers
       ELSE /\ Len(SubscribersOf(name)) < MaxSubscribers
            /\ subscribers' =
                 [n \in DOMAIN subscribers \cup {name} |->
                    IF n = name THEN Append(SubscribersOf(name), h)
                    ELSE subscribers[n]]
            /\ published' = BusCall("subscribe", name, <<>>, <<>>, 0, "none")
  /\ UNCHANGED <<raydium, configVars, tradeVars, mathVars, opsVars>>

\* EventBus.unsubscribe(event_name, handler)
BusUnsubscribe ==
  /\ \E name \in EventNames, h \in Handlers :
       /\ IF name \in DOMAIN subscribers
          THEN subscribers' =
                 [subscribers EXCEPT ![name] = Without(subscribers[name], h)]
          ELSE UNCHANGED subscribers
       /\ published' = BusCall("unsubscribe", name, <<h>>, <<>>, 0, "none")
  /\ UNCHANGED <<raydium, configVars, tradeVars, mathVars, opsVars>>

\* EventBus.publish(event_name, **data)
BusPublish ==
  /\ \E name \in EventNames :
       LET hs == SubscribersOf(name)
       IN \E raises \in [1..Len(hs) -> BOOLEAN] :
            LET run == PublishLoop(hs, raises, 1)
            IN published' = BusCall("publish", name, run.invoked, raises,
                                    run.printed, run.escaped)
  /\ UNCHANGED <<subscribers, raydium, configVars, tradeVars, mathVars, opsVars>>

NextBus == BusSubscribe \/ BusUnsubscribe \/ BusPublish

\* ------------------------------------------------------------ configuration
\* src/agentx/foundation/config.py
\* a missing dictionary entry, an unset environment variable, None
Absent == 0 - 1
DefaultSlippageBps == 300
DefaultTokenDecimals == 9
EnvKeys == {"DEFAULT_SLIPPAGE_BPS", "DEFAULT_TOKEN_DECIMALS"}
ConfigKeys == EnvKeys \cup {"CUSTOM"}
EnvValues == {Absent, 50}
ConfigValues == {0, 50}

\* int(os.getenv("AGENTX_" + k, default))
EnvDefault(k) ==
  IF k = "DEFAULT_SLIPPAGE_BPS" THEN DefaultSlippageBps ELSE DefaultTokenDecimals

Getenv(env, k) == IF env[k] = Absent THEN EnvDefault(k) ELSE env[k]

\* Config._load_env_vars: assigns the environment-derived entries in place
LoadEnvVars(cfg, env) ==
  [k \in DOMAIN cfg \cup EnvKeys |->
     IF k \in EnvKeys THEN Getenv(env, k) ELSE cfg[k]]

\* Config.__new__
New(inst) == IF inst = "None" THEN "instance1" ELSE inst

\* mutant: every construction loads the environment again
ConstructedReloads(cfg, env) == LoadEnvVars(<<>>, env)
\* Config.__init__: if not self._config: self._load_env_vars()
Constructed(cfg, env) ==
  IF DOMAIN cfg = {} THEN LoadEnvVars(cfg, env) ELSE cfg

\* instance._config.get(key, default)
DictGet(cfg, k, default) == IF k \in DOMAIN cfg THEN cfg[k] ELSE default

\* instance._config[key] = value
DictSet(cfg, k, v) ==
  [j \in DOMAIN cfg \cup {k} |-> IF j = k THEN v ELSE cfg[j]]

ConfigCall(o, k, v, inst) == [op |-> o, key |-> k, value |-> v, instance |-> inst]

NothingSet == [k \in ConfigKeys |-> Absent]

\* the class body, lines 8-9: _instance = None, _config = {}
ConfigInit ==
  /\ cfgInstance = "None"
  /\ cfgConfig = <<>>
  /\ environ = [k \in EnvKeys |-> Absent]
  /\ cfgSet = NothingSet
  /\ cfgLast = ConfigCall("class", "none", Absent, "None")

\* the process environment changes between calls
EnvChange ==
  /\ \E k \in EnvKeys, v \in EnvValues :
       /\ environ[k] # v
       /\ environ' = [environ EXCEPT ![k] = v]
  /\ cfgLast' = ConfigCall("environ", "none", Absent, "None")
  /\ UNCHANGED <<cfgInstance, cfgConfig, cfgSet>>
  /\ UNCHANGED <<raydium, busVars, tradeVars, mathVars, opsVars>>

\* Config(), as at line 83 or from any caller
ConfigConstruct ==
  /\ cfgInstance' = New(cfgInstance)
  /\ cfgConfig' = Constructed(cfgConfig, environ)
  /\ cfgLast' = ConfigCall("construct", "none", Absent, cfgInstance')
  /\ UNCHANGED <<environ, cfgSet>>
  /\ UNCHANGED <<raydium, busVars, tradeVars, mathVars, opsVars>>

\* Config.get(key)
ConfigGet ==
  /\ \E k \in ConfigKeys :
       LET instance == New(cfgInstance)
           loaded == Constructed(cfgConfig, environ)
       IN /\ cfgInstance' = instance
          /\ cfgConfig' = loaded
          /\ cfgLast' = ConfigCall("get", k, DictGet(loaded, k, Absent), instance)
  /\ UNCHANGED <<environ, cfgSet>>
  /\ UNCHANGED <<raydium, busVars, tradeVars, mathVars, opsVars>>

\* Config.set(key, value)
ConfigSet ==
  /\ \E k \in ConfigKeys, v \in ConfigValues :
       LET instance == New(cfgInstance)
           loaded == Constructed(cfgConfig, environ)
       IN /\ cfgInstance' = instance
          /\ cfgConfig' = DictSet(loaded, k, v)
          /\ cfgSet' = [cfgSet EXCEPT ![k] = v]
          /\ cfgLast' = ConfigCall("set", k, v, instance)
  /\ UNCHANGED environ
  /\ UNCHANGED <<raydium, busVars, tradeVars, mathVars, opsVars>>

\* Config.reload(): instance._config.clear(); instance._load_env_vars()
ConfigReload ==
  /\ LET instance == New(cfgInstance)
     IN /\ cfgInstance' = instance
        /\ cfgConfig' = LoadEnvVars(<<>>, environ)
        /\ cfgLast' = ConfigCall("reload", "none", Absent, instance)
  /\ cfgSet' = NothingSet
  /\ UNCHANGED environ
  /\ UNCHANGED <<raydium, busVars, tradeVars, mathVars, opsVars>>

\* ------------------------------------------------------------------ trading
\* src/agentx/foundation/trading_ops.py
SlippageBpsArgs == {Absent, 0, 50}

\* slippage_bps or config.get('DEFAULT_SLIPPAGE_BPS'): None and 0 are falsy
SlippageBpsParam(slippage_bps, default) ==
  IF slippage_bps = Absent \/ slippage_bps = 0 THEN default ELSE slippage_bps

TradeInit ==
  quote_url = [called |-> FALSE, arg |-> Absent, default |-> Absent,
               slippageBps |-> Absent]

\* execute_trade, lines 52-60: the quote URL is built
ExecuteTradeQuoteUrl ==
  /\ \E slippage_bps \in SlippageBpsArgs :
       LET instance == New(cfgInstance)
           loaded == Constructed(cfgConfig, environ)
           default == DictGet(loaded, "DEFAULT_SLIPPAGE_BPS", Absent)
       IN /\ cfgInstance' = instance
          /\ cfgConfig' = loaded
          /\ cfgLast' = ConfigCall("get", "DEFAULT_SLIPPAGE_BPS", default, instance)
          /\ quote_url' = [called |-> TRUE, arg |-> slippage_bps,
                           default |-> default,
                           slippageBps |-> SlippageBpsParam(slippage_bps, default)]
  /\ UNCHANGED <<environ, cfgSet>>
  /\ UNCHANGED <<raydium, busVars, mathVars, opsVars>>

NextConfig ==
  \/ EnvChange
  \/ ConfigConstruct
  \/ ConfigGet
  \/ ConfigSet
  \/ ConfigReload
  \/ ExecuteTradeQuoteUrl

\* ---------------------------------------------------- swap math, on its own
\* largest reserve and largest input amount of the snapshots tried
MaxReserve == 4
MaxAmount == 4
BaseReserves == 0..MaxReserve
QuoteReserves == 1..MaxReserve
Amounts == 0..MaxAmount

REq(a, b) == a.n * b.d = b.n * a.d
RLess(a, b) == RLeq(a, b) /\ ~REq(a, b)

\* nothing computed
MathInit ==
  /\ mathBase = 0 /\ mathQuote = 0
  /\ mathIn = RInt(0) /\ mathOut = RInt(0)
  /\ mathStage = "idle"

\* native_for_asset(asset_in, base_reserve, quote_reserve)
NativeForAsset ==
  /\ mathStage = "idle"
  /\ \E asset_in \in Amounts :
       /\ mathBase + asset_in > 0
       /\ mathIn' = RInt(asset_in)
       /\ mathOut' = tokens_for_sol(RInt(asset_in), mathBase, mathQuote)
  /\ mathStage' = "native_for_asset"
  /\ UNCHANGED <<mathBase, mathQuote, raydium, busVars, configVars, tradeVars, opsVars>>

\* asset_for_native(native_in, base_reserve, quote_reserve)
AssetForNative ==
  /\ mathStage = "idle"
  /\ \E native_in \in Amounts :
       /\ mathIn' = RInt(native_in)
       /\ mathOut' = sol_for_tokens(RInt(native_in), mathBase, mathQuote)
  /\ mathStage' = "asset_for_native"
  /\ UNCHANGED <<mathBase, mathQuote, raydium, busVars, configVars, tradeVars, opsVars>>

\* the output of native_for_asset is fed to asset_for_native, same snapshot
AssetForNativeOfOutput ==
  /\ mathStage = "native_for_asset"
  /\ ~RIsZero(RAdd(RInt(mathQuote), mathOut))
  /\ mathOut' = sol_for_tokens(mathOut, mathBase, mathQuote)
  /\ mathStage' = "asset_round_trip"
  /\ UNCHANGED <<mathBase, mathQuote, mathIn, raydium, busVars, configVars,
                 tradeVars, opsVars>>

\* the output of asset_for_native is fed to native_for_asset, same snapshot
NativeForAssetOfOutput ==
  /\ mathStage = "asset_for_native"
  /\ ~RIsZero(RAdd(RInt(mathBase), mathOut))
  /\ mathOut' = tokens_for_sol(mathOut, mathBase, mathQuote)
  /\ mathStage' = "native_round_trip"
  /\ UNCHANGED <<mathBase, mathQuote, mathIn, raydium, busVars, configVars,
                 tradeVars, opsVars>>

NextMath ==
  \/ NativeForAsset
  \/ AssetForNative
  \/ AssetForNativeOfOutput
  \/ NativeForAssetOfOutput


\* -------------------------------------------------------- client operations
\* src/agentx/foundation/base_client.py, trading_ops.py, account_ops.py
\* words an error message is made of, and the longest message tried
MaxWords == 2
\* mints one burn_and_close_multiple call may be given
MaxMints == 2
Words ==
  {"insufficient funds", "Insufficient Funds", "Account not found",
   "account not found", "timed out"}
Messages == UNION {[1..n -> Words] : n \in 0..MaxWords}

\* str.lower(), word by word
LowerWord(w) ==
  CASE w = "Insufficient Funds" -> "insufficient funds"
    [] w = "Account not found" -> "account not found"
    [] OTHER -> w
Lower(msg) == [i \in DOMAIN msg |-> LowerWord(msg[i])]
\* needle in msg
Contains(msg, needle) == \E i \in DOMAIN msg : msg[i] = needle

Exc(type, msg) == [type |-> type, msg |-> msg]
NoExc == Exc("none", <<>>)
\* what the RPC connection and the HTTP session may raise
NetExceptions == {Exc("RPCException", m) : m \in Messages}

Entry(kind, name, arg, exc) ==
  [kind |-> kind, name |-> name, arg |-> arg, exc |-> exc]
\* self.event_bus.publish(name, ...)
Ev(name) == Entry("event", name, "none", NoExc)
\* an awaited network call came back, with an exception or without
Answer(name, arg, exc) == Entry("net", name, arg, exc)
Called(name, arg) == Entry("call", name, arg, NoExc)
Returned(name, arg) == Entry("return", name, arg, NoExc)
Raised(name, exc) == Entry("raise", name, "none", exc)

NoResult == [kind |-> "none", value |-> <<>>, exc |-> NoExc]
ResultReturned(v) == [kind |-> "returned", value |-> v, exc |-> NoExc]
ResultRaised(e) == [kind |-> "raised", value |-> <<>>, exc |-> e]
Outcome(tr, at, res, sigs) ==
  [trace |-> tr, pc |-> at, result |-> res, signatures |-> sigs]

BadAddress == "not_base58"
Addresses == {"address1", BadAddress}
MintArgs == {"None", "mint1", BadAddress}
MintLists == UNION {[1..n -> {"mint1", "mint2", BadAddress}] : n \in 0..MaxMints}
NoCall ==
  [op |-> "none", destination |-> "none", mint |-> "None", mints |-> <<>>,
   outAmount |-> FALSE]

OpsInit ==
  /\ opsPc = "idle"
  /\ opsCall = NoCall
  /\ trace = <<>>
  /\ opsResult = NoResult
  /\ signatures = <<>>

\* send_transaction, lines 45-54: up to the await of connection.send_transaction
SendTransactionEnter(tx) ==
  <<Called("send_transaction", tx), Ev("transaction_sending")>>
\* send_transaction, lines 56-65: up to the await of confirm_transaction
SendTransactionSubmitted(tx) == <<Ev("transaction_submitted")>>
\* send_transaction, lines 67-75
SendTransactionConfirmed(tx) ==
  <<Ev("transaction_confirmed"), Returned("send_transaction", tx)>>
\* mutant: the handler raises a TransactionError in place of the exception
SendTransactionFailedWrapped(e) ==
  <<Ev("transaction_failed"),
    Raised("send_transaction", Exc("TransactionError", e.msg))>>
\* send_transaction, lines 77-85: except Exception: publish; raise
SendTransactionFailed(e) ==
  <<Ev("transaction_failed"), Raised("send_transaction", e)>>

\* mutant: the message is compared as it is
TransferErrorTypeCaseSensitive(msg) ==
  IF Contains(msg, "insufficient funds") THEN "InsufficientFundsError"
  ELSE IF Contains(msg, "Account not found") THEN "AccountNotFoundError"
  ELSE "TransactionError"
\* transfer, lines 189-193
TransferErrorType(msg) ==
  IF Contains(Lower(msg), "insufficient funds") THEN "InsufficientFundsError"
  ELSE IF Contains(msg, "Account not found") THEN "AccountNotFoundError"
  ELSE "TransactionError"

\* execute_trade, lines 119-129: except Exception: publish; raise
TradeFailed(e) == <<Ev("trade_failed"), Raised("execute_trade", e)>>
\* transfer, lines 179-193: the raised error's text ends with str(e)
TransferFailed(e) ==
  <<Ev("transfer_failed"),
    Raised("transfer", Exc(TransferErrorType(e.msg), e.msg))>>
\* burn_and_close_account, lines 249-250; burn_and_close_multiple lets it pass
BurnFailed(e) ==
  <<Raised("burn_and_close_account", Exc("AccountError", e.msg)),
    Raised("burn_and_close_multiple", Exc("AccountError", e.msg))>>

\* the exception e leaves the try block of the running call
AfterRaise(call, tr, sigs, e) ==
  LET handled ==
        CASE call.op = "execute_trade" -> tr \o TradeFailed(e)
          [] call.op = "transfer" -> tr \o TransferFailed(e)
          [] call.op = "burn_and_close_multiple" -> tr \o BurnFailed(e)
          [] OTHER -> tr
  IN Outcome(handled, "done", ResultRaised(handled[Len(handled)].exc), sigs)

\* mutant: a failing mint is skipped and the loop goes on
RECURSIVE BurnFromSkipping(_, _, _)
BurnFromSkipping(call, tr, sigs) ==
  LET i == Len(sigs) + 1
  IN IF i > Len(call.mints)
     THEN Outcome(tr \o <<Returned("burn_and_close_multiple", "none")>>,
                  "done", ResultReturned(sigs), sigs)
     ELSE LET entered == tr \o <<Called("burn_and_close_account", call.mints[i])>>
          IN IF call.mints[i] = BadAddress
             THEN BurnFromSkipping(call, entered, Append(sigs, "skipped"))
             ELSE Outcome(entered \o SendTransactionEnter(call.mints[i]),
                          "await_send", NoResult, sigs)
\* burn_and_close_multiple, lines 265-269, from the mint after the collected
\* signatures: burn_and_close_account(mint) up to its await (lines 208-245)
BurnFrom(call, tr, sigs) ==
  LET i == Len(sigs) + 1
  IN IF i > Len(call.mints)
     THEN Outcome(tr \o <<Returned("burn_and_close_multiple", "none")>>,
                  "done", ResultReturned(sigs), sigs)
     ELSE LET entered == tr \o <<Called("burn_and_close_account", call.mints[i])>>
          IN IF call.mints[i] = BadAddress
             THEN AfterRaise(call, entered, sigs, Exc("ValueError", <<>>))
             ELSE Outcome(entered \o SendTransactionEnter(call.mints[i]),
                          "await_send", NoResult, sigs)

\* mutant: the completion event is published before the result is built
TradeCompletedEarly(call, tr, sigs) ==
  IF call.outAmount
  THEN Outcome(tr \o <<Ev("trade_completed"),
                       Returned("execute_trade", "TradeResult")>>,
               "done", ResultReturned(<<"TradeResult">>), sigs)
  ELSE AfterRaise(call, tr \o <<Ev("trade_completed")>>, sigs,
                  Exc("KeyError", <<>>))
\* execute_trade, lines 102-117: TradeResult(...), publish, return
TradeCompleted(call, tr, sigs) ==
  IF call.outAmount
  THEN Outcome(tr \o <<Ev("trade_completed"),
                       Returned("execute_trade", "TradeResult")>>,
               "done", ResultReturned(<<"TradeResult">>), sigs)
  ELSE AfterRaise(call, tr, sigs, Exc("KeyError", <<>>))

\* transfer, lines 161-177: TransferResult(...), publish, return
TransferCompleted(call, tr, sigs) ==
  Outcome(tr \o <<Ev("transfer_completed"),
                  Returned("transfer", "TransferResult")>>,
          "done", ResultReturned(<<"TransferResult">>), sigs)

\* send_transaction returned the signature of tx to the running call
AfterSendReturned(call, tr, sigs, tx) ==
  CASE call.op = "execute_trade" -> TradeCompleted(call, tr, sigs)
    [] call.op = "transfer" -> TransferCompleted(call, tr, sigs)
    [] call.op = "burn_and_close_multiple" ->
         BurnFrom(call, tr, Append(sigs, tx))
    [] OTHER -> Outcome(tr, "done", ResultReturned(<<tx>>), sigs)

HttpStatuses == {200, 429}

Apply(o) ==
  /\ opsPc' = o.pc
  /\ trace' = o.trace
  /\ opsResult' = o.result
  /\ signatures' = o.signatures

\* the transaction the running send_transaction was given
CurrentTx ==
  IF opsCall.op = "burn_and_close_multiple"
  THEN opsCall.mints[Len(signatures) + 1] ELSE "tx"

\* a caller awaits send_transaction(transaction) of the client
CallSendTransaction ==
  /\ opsPc \in {"idle", "done"}
  /\ opsCall' = [NoCall EXCEPT !.op = "send_transaction"]
  /\ Apply(Outcome(SendTransactionEnter("tx"), "await_send", NoResult, <<>>))
  /\ UNCHANGED <<raydium, busVars, configVars, tradeVars, mathVars>>

\* send_transaction, line 54: await self.connection.send_transaction(...)
ConnectionSendTransaction ==
  /\ opsPc = "await_send"
  /\ \/ Apply(Outcome(trace \o <<Answer("send_transaction", CurrentTx, NoExc)>>
                            \o SendTransactionSubmitted(CurrentTx),
                      "await_confirm", NoResult, signatures))
     \/ \E e \in NetExceptions :
          LET tr == trace \o <<Answer("send_transaction", CurrentTx, e)>>
                          \o SendTransactionFailed(e)
          IN Apply(AfterRaise(opsCall, tr, signatures, tr[Len(tr)].exc))
  /\ UNCHANGED <<opsCall, raydium, busVars, configVars, tradeVars, mathVars>>

\* send_transaction, line 65: await self.connection.confirm_transaction(...)
ConnectionConfirmTransaction ==
  /\ opsPc = "await_confirm"
  /\ \/ Apply(AfterSendReturned(
                opsCall,
                trace \o <<Answer("confirm_transaction", CurrentTx, NoExc)>>
                      \o SendTransactionConfirmed(CurrentTx),
                signatures, CurrentTx))
     \/ \E e \in NetExceptions :
          LET tr == trace \o <<Answer("confirm_transaction", CurrentTx, e)>>
                          \o SendTransactionFailed(e)
          IN Apply(AfterRaise(opsCall, tr, signatures, tr[Len(tr)].exc))
  /\ UNCHANGED <<opsCall, raydium, busVars, configVars, tradeVars, mathVars>>

\* execute_trade, lines 41-64: trade_initiated, the quote URL, session.get
CallExecuteTrade ==
  /\ opsPc \in {"idle", "done"}
  /\ opsCall' = [NoCall EXCEPT !.op = "execute_trade"]
  /\ Apply(Outcome(<<Called("execute_trade", "none"), Ev("trade_initiated")>>,
                   "trade_quote", NoResult, <<>>))
  /\ UNCHANGED <<raydium, busVars, configVars, tradeVars, mathVars>>

\* execute_trade, lines 64-77: the quote response
TradeQuote ==
  /\ opsPc = "trade_quote"
  /\ \/ /\ \E e \in NetExceptions :
             Apply(AfterRaise(opsCall, trace \o <<Answer("quote", "none", e)>>,
                              signatures, e))
        /\ UNCHANGED opsCall
     \/ \E status \in HttpStatuses, out \in BOOLEAN :
          LET tr == trace \o <<Answer("quote", "none", NoExc)>>
          IN IF status # 200
             THEN /\ ~out
                  /\ Apply(AfterRaise(opsCall, tr, signatures,
                                      Exc("QuoteError", <<>>)))
                  /\ UNCHANGED opsCall
             ELSE /\ opsCall' = [opsCall EXCEPT !.outAmount = out]
                  /\ Apply(Outcome(tr \o <<Ev("trade_quote_received")>>,
                                   "trade_swap", NoResult, signatures))
  /\ UNCHANGED <<raydium, busVars, configVars, tradeVars, mathVars>>

\* execute_trade, lines 77-95: the swap response, decoded
TradeSwap ==
  /\ opsPc = "trade_swap"
  /\ \/ \E e \in NetExceptions :
          Apply(AfterRaise(opsCall, trace \o <<Answer("swap", "none", e)>>,
                           signatures, e))
     \/ \E status \in HttpStatuses, decodes \in BOOLEAN :
          LET tr == trace \o <<Answer("swap", "none", NoExc)>>
          IN IF status # 200
             THEN /\ decodes
                  /\ Apply(AfterRaise(opsCall, tr, signatures,
                                      Exc("SwapError", <<>>)))
             ELSE IF ~decodes
             THEN Apply(AfterRaise(opsCall, tr, signatures,
                                   Exc("ValueError", <<>>)))
             ELSE Apply(Outcome(tr, "trade_blockhash", NoResult, signatures))
  /\ UNCHANGED <<opsCall, raydium, busVars, configVars, tradeVars, mathVars>>

\* execute_trade, lines 95-100: blockhash, sign, send_transaction
TradeBlockhash ==
  /\ opsPc = "trade_blockhash"
  /\ \/ \E e \in NetExceptions :
          Apply(AfterRaise(opsCall,
                           trace \o <<Answer("get_latest_blockhash", "none", e)>>,
                           signatures, e))
     \/ Apply(Outcome(trace \o <<Answer("get_latest_blockhash", "none", NoExc)>>
                            \o SendTransactionEnter("tx"),
                      "await_send", NoResult, signatures))
  /\ UNCHANGED <<opsCall, raydium, busVars, configVars, tradeVars, mathVars>>

\* transfer, lines 146-148 / 151-159: the transaction is built and handed to
\* send_transaction; builds tells whether the library built it
TransferSend(call, tr, builds) ==
  IF builds
  THEN Outcome(tr \o SendTransactionEnter("tx"), "await_send", NoResult, <<>>)
  ELSE AfterRaise(call, tr, <<>>, Exc("TypeError", <<>>))

\* mutant: transfer_started is published before the addresses are parsed
TransferEnterStartsFirst(call, builds) ==
  LET entered == <<Called("transfer", "none"), Ev("transfer_started")>>
  IN IF call.destination = BadAddress \/ call.mint = BadAddress
     THEN AfterRaise(call, entered, <<>>, Exc("ValueError", <<>>))
     ELSE IF call.mint # "None"
     THEN Outcome(entered, "transfer_mint_info", NoResult, <<>>)
     ELSE TransferSend(call, entered, builds)
\* transfer, lines 103-127 / 150-159: up to the first await
TransferEnter(call, builds) ==
  LET entered == <<Called("transfer", "none")>>
      started == entered \o <<Ev("transfer_started")>>
  IN IF call.destination = BadAddress \/ call.mint = BadAddress
     THEN AfterRaise(call, entered, <<>>, Exc("ValueError", <<>>))
     ELSE IF call.mint # "None"
     THEN Outcome(started, "transfer_mint_info", NoResult, <<>>)
     ELSE TransferSend(call, started, builds)

\* a caller awaits transfer(destination, amount, mint)
CallTransfer ==
  /\ opsPc \in {"idle", "done"}
  /\ \E d \in Addresses, m \in MintArgs, builds \in BOOLEAN :
       LET call == [NoCall EXCEPT !.op = "transfer", !.destination = d,
                                  !.mint = m]
       IN /\ (builds \/ (d # BadAddress /\ m = "None"))
          /\ opsCall' = call
          /\ Apply(TransferEnter(call, builds))
  /\ UNCHANGED <<raydium, busVars, configVars, tradeVars, mathVars>>

\* transfer, lines 127-148: await spl_client.get_mint_info()
TransferMintInfo ==
  /\ opsPc = "transfer_mint_info"
  /\ \/ \E e \in NetExceptions :
          Apply(AfterRaise(opsCall,
                           trace \o <<Answer("get_mint_info", "none", e)>>,
                           signatures, e))
     \/ \E builds \in BOOLEAN :
          Apply(TransferSend(opsCall,
                             trace \o <<Answer("get_mint_info", "none", NoExc)>>,
                             builds))
  /\ UNCHANGED <<opsCall, raydium, busVars, configVars, tradeVars, mathVars>>

\* a caller awaits burn_and_close_multiple(mints)
CallBurnAndCloseMultiple ==
  /\ opsPc \in {"idle", "done"}
  /\ \E ms \in MintLists :
       LET call == [NoCall EXCEPT !.op = "burn_and_close_multiple",
                                  !.mints = ms]
       IN /\ opsCall' = call
          /\ Apply(BurnFrom(call, <<Called("burn_and_close_multiple", "none")>>,
                            <<>>))
  /\ UNCHANGED <<raydium, busVars, configVars, tradeVars, mathVars>>

NextOps ==
  \/ CallSendTransaction
  \/ ConnectionSendTransaction
  \/ ConnectionConfirmTransaction
  \/ CallExecuteTrade
  \/ TradeQuote
  \/ TradeSwap
  \/ TradeBlockhash
  \/ CallTransfer
  \/ TransferMintInfo
  \/ CallBurnAndCloseMultiple


\* a reserve snapshot is taken
InitMath ==
  /\ RaydiumInit /\ BusInit /\ ConfigInit /\ TradeInit /\ OpsInit
  /\ mathBase \in BaseReserves /\ mathQuote \in QuoteReserves
  /\ mathIn = RInt(0) /\ mathOut = RInt(0)
  /\ mathStage = "idle"

Init ==
  /\ RaydiumInit /\ BusInit /\ ConfigInit /\ TradeInit /\ MathInit
  /\ OpsInit

SpecBus == Init /\ [][NextBus]_vars

SpecConfig == Init /\ [][NextConfig]_vars

SpecMath == InitMath /\ [][NextMath]_vars

SpecOps == Init /\ [][NextOps]_vars

Spec == Init /\ [][Next]_vars

\* ------------------------------------------------------------------ claims
\* positions of the instructions of one kind on one account
Idx(kind, account) ==
  {i \in DOMAIN instructions :
     instructions[i].kind = kind /\ instructions[i].account = account}
Swaps == {i \in DOMAIN instructions : instructions[i].kind = "swap"}
ValidSlippage == 0 <= slippage /\ slippage <= 100
\* the unadjusted estimate in the smallest unit of the output asset
EstimateUnits ==
  IF op = "buy" THEN RMul(amount_out, RInt(Pow10(token_decimal)))
  ELSE RMul(amount_out, RInt(SOL_DECIMAL))

\* C1: every assembled bundle, and so every submitted one, holds exactly one
\* creation, one initialization and one close of the ephemeral account and
\* one swap, with creation < initialization < swap < close.
C1_BundleOrder ==
  (instructions # <<>> \/ sendCount > 0) =>
    LET cr == Idx("create_account_with_seed", "wsol")
        ini == Idx("initialize_account", "wsol")
        cl == Idx("close_account", "wsol")
    IN /\ Cardinality(cr) = 1 /\ Cardinality(ini) = 1
       /\ Cardinality(Swaps) = 1 /\ Cardinality(cl) = 1
       /\ \A c \in cr, i \in ini, w \in Swaps, e \in cl :
            c < i /\ i < w /\ w < e
C1_Witness ==
  /\ op = "buy" /\ token_account = "existing" /\ sendCount = 1
  /\ Len(instructions) = 6

\* C2: a sell of 100 percent ends its bundle with the close of the source
\* token account, right after the ephemeral close; a sell of 1..99 percent
\* holds no close of the source token account.
C2_SourceClose ==
  (op = "sell" /\ instructions # <<>>) =>
    LET n == Len(instructions)
    IN /\ percentage = 100 =>
            /\ instructions[n] = CloseAccount(token_account, 0)
            /\ instructions[n - 1] = CloseAccount("wsol", seed)
       /\ (1 <= percentage /\ percentage <= 99) =>
            Idx("close_account", token_account) = {}
C2_Witness ==
  /\ op = "sell" /\ percentage = 100 /\ sendCount = 1
  /\ instructions # <<>>

C4_AtMostOneSubmission ==
  /\ sendCount <= 1
  /\ Cardinality({i \in DOMAIN netCalls : netCalls[i] = "send_transaction"}) <= 1
C4_Witness ==
  /\ pc = "done" /\ sendCount = 1 /\ outcome = "TimedOut"

\* C5: a call with a slippage outside 0..100 never assembles a bundle and
\* never submits.
C5_InvalidSlippageRejected ==
  (op # "none" /\ ~ValidSlippage) => (instructions = <<>> /\ sendCount = 0)

\* C6: the minimum_amount_out of the swap instruction is >= 0 and <= the
\* unadjusted estimate, and is the truncated estimate when slippage is 0.
C6_MinimumAmountOutBounded ==
  \A w \in Swaps :
    LET m == instructions[w].minimum_amount_out
    IN /\ m >= 0
       /\ RLeq(RInt(m), EstimateUnits)
       /\ slippage = 0 => m = PyInt(EstimateUnits)

\* C7: a call that ends on invalid slippage or on an invalid reserve state
\* has made no network call.
C7_ValidationBeforeNetwork ==
  (pc = "done" /\ (error = "InvalidReserveStateError" \/ ~ValidSlippage))
    => netCalls = <<>>

\* C8: no exception leaves the call: a call that ran into an error ends
\* with False, and True is returned only for a submitted transaction whose
\* confirmation was observed.
C8_NoExceptionEscapes ==
  pc = "done" =>
    /\ result # "raised"
    /\ error # "none" => result = "False"
    /\ result = "True" => (sendCount = 1 /\ txn_sig = "sig" /\ txFate = "ok")
C8_Witness ==
  /\ pc = "done" /\ error = "SubmissionRejectedError" /\ result = "False"

\* C9: a bundle submitted with an expired anchor does not end in the
\* polling timeout.
C9_StaleAnchorRejected ==
  (pc = "done" /\ sendCount = 1 /\ anchor = "stale") => outcome # "TimedOut"

\* C10: the creation of the ephemeral account carries balance_needed +
\* native_in lamports on a buy and balance_needed lamports on a sell,
\* balance_needed being the rent minimum this call read.
C10_EphemeralFunding ==
  instructions # <<>> =>
    \A c \in Idx("create_account_with_seed", "wsol") :
      /\ balance_needed \in RentValues
      /\ instructions[c].lamports =
           IF op = "buy"
           THEN balance_needed + ((sol_in * SOL_DECIMAL) \div SolInDen)
           ELSE balance_needed
C10_Witness ==
  /\ calls = 2 /\ op = "buy" /\ sol_in = 1 /\ sendCount = 1
  /\ instructions # <<>>

\* positions of the calls of one name among the network calls of the attempt
Pos(name) == {i \in DOMAIN netCalls : netCalls[i] = name}
ComputeBudgetKinds == {"set_compute_unit_limit", "set_compute_unit_price"}

\* C11: every assembled bundle, buy or sell, starts with the compute-unit
\* limit setting followed by the compute-unit price setting, both with their
\* fixed constants, and holds no other compute-budget instruction.
C11_ComputeBudgetFirst ==
  instructions # <<>> =>
    /\ instructions[1] = SetComputeUnitLimit
    /\ instructions[2] = SetComputeUnitPrice
    /\ \A i \in 3..Len(instructions) :
         instructions[i].kind \notin ComputeBudgetKinds
C11_Witness ==
  /\ op = "sell" /\ percentage = 50 /\ Len(instructions) = 6
  /\ instructions[1].kind = "set_compute_unit_limit"

\* C12: a buy bundle holds the associated-token-account creation exactly when
\* the wallet held no token account for the mint; the creation stands after
\* the ephemeral initialization and before the swap; the swap's output is
\* the existing account when there is one and the associated address
\* otherwise.
C12_AtaCreation ==
  (op = "buy" /\ instructions # <<>>) =>
    LET ata == Idx("create_associated_token_account", "ata")
        ini == Idx("initialize_account", "wsol")
    IN /\ token_account \in {"existing", "ata"}
       /\ (ata # {}) <=> (token_account = "ata")
       /\ Cardinality(ata) <= 1
       /\ \A a \in ata, i \in ini, w \in Swaps : i < a /\ a < w
       /\ \A w \in Swaps : instructions[w].dst = token_account
C12_Witness ==
  /\ op = "buy" /\ token_account = "ata" /\ Len(instructions) = 7
  /\ instructions[5] = CreateAssociatedTokenAccount
  /\ sendCount = 1

\* C13: within one attempt the anchor is read and the bundle compiled before
\* the wallet signs, the wallet signs at most once, a submission is always a
\* signed one and happens once, polling starts only after a submission
\* returned a signature, and a submitted attempt that ended has exactly one
\* of the terminal outcomes.
C13_PhaseOrder ==
  /\ signCount <= 1 /\ sendCount <= signCount
  /\ signCount > 0 =>
       /\ instructions # <<>> /\ anchor # "unset"
       /\ Pos("get_latest_blockhash") # {}
  /\ Cardinality(Pos("send_transaction")) = sendCount
  /\ \A b \in Pos("get_latest_blockhash"), sn \in Pos("send_transaction") :
       b < sn
  /\ Pos("get_transaction") # {} =>
       /\ txn_sig = "sig" /\ sendCount = 1
       /\ \A sn \in Pos("send_transaction"), g \in Pos("get_transaction") :
            sn < g
  /\ (txn_sig = "sig" /\ pc # "done") => outcome = "none"
  /\ (txn_sig = "sig" /\ pc = "done") =>
       outcome \in {"Confirmed", "Rejected", "TimedOut"}
C13_Witness ==
  /\ pc = "done" /\ txn_sig = "sig" /\ outcome = "Confirmed"
  /\ netCalls[Len(netCalls)] = "get_transaction"
  /\ signCount = 1

\* C17: nothing is signed or submitted unless the pool lookup returned pool
\* keys and, on a sell, the percentage is in 1..100 and the balance is
\* neither zero nor missing; each early exit returns False with nothing
\* signed, and an invalid percentage ends the sell before any lookup.
C17_EarlyExits ==
  /\ (signCount > 0 \/ sendCount > 0) =>
       /\ pool_keys = "keys"
       /\ op = "sell" =>
            /\ 1 <= percentage /\ percentage <= 100
            /\ ~RIsZero(token_balance)
  /\ outcome = "EarlyExit" =>
       /\ result = "False" /\ signCount = 0 /\ sendCount = 0
  /\ (op = "sell" /\ ~(1 <= percentage /\ percentage <= 100)) =>
       /\ netCalls = <<>>
       /\ pc = "done" => outcome = "EarlyExit"
C17_Witness ==
  /\ op = "sell" /\ percentage = 101 /\ pc = "done"
  /\ result = "False" /\ outcome = "EarlyExit"

\* C15: at every snapshot with quote_reserve > 0, native_for_asset never
\* exceeds quote_reserve and does not decrease when asset_in grows, for all
\* asset_in >= 0 with base_reserve + asset_in > 0.
C15_NativeForAssetBounded ==
  /\ mathStage = "native_for_asset" => RLeq(mathOut, RInt(mathQuote))
  /\ mathQuote > 0 =>
       \A a1 \in Amounts, a2 \in Amounts :
         (a1 <= a2 /\ mathBase + a1 > 0) =>
           /\ RLeq(tokens_for_sol(RInt(a1), mathBase, mathQuote),
                   tokens_for_sol(RInt(a2), mathBase, mathQuote))
           /\ RLeq(tokens_for_sol(RInt(a2), mathBase, mathQuote),
                   RInt(mathQuote))
C15_Witness ==
  /\ mathStage = "native_for_asset" /\ mathBase = 3 /\ mathQuote = 2
  /\ mathIn = RInt(3) /\ REq(mathOut, RInt(1))

\* the distance between the value a round trip returns and its input
RoundTripError ==
  IF RLeq(mathOut, mathIn) THEN RSub(mathIn, mathOut) ELSE RSub(mathOut, mathIn)
RoundTrips == {"asset_round_trip", "native_round_trip"}

\* C16 as stated: feeding the output of one function into the other, at the
\* same snapshot, returns the input within one smallest unit.
C16_RoundTripWithinOneUnit ==
  mathStage \in RoundTrips => RLeq(RoundTripError, RInt(1))
\* C16, amended: a round trip at one snapshot never returns more than its
\* input; it returns base * x / (base + 2 * x) for an asset amount x and
\* quote * x / (quote + 2 * x) for a native amount x, which is less than x
\* for every x > 0.
C16_RoundTripShrinks ==
  LET x == mathIn.n
  IN /\ mathStage = "asset_round_trip" =>
          /\ REq(mathOut, Rat(mathBase * x, mathBase + 2 * x))
          /\ x > 0 => RLess(mathOut, mathIn)
     /\ mathStage = "native_round_trip" =>
          /\ REq(mathOut, Rat(mathQuote * x, mathQuote + 2 * x))
          /\ x > 0 => RLess(mathOut, mathIn)
C16_Witness ==
  /\ mathStage = "asset_round_trip" /\ mathBase = 4 /\ mathIn = RInt(4)
  /\ REq(mathOut, Rat(4, 3))

\* C18: publish(name) invokes the handlers subscribed to name, each once per
\* subscription and in subscription order, whichever of them raise; nothing
\* escapes to the publisher, and no handler is invoked on behalf of another
\* event name.
C18_PublishInvokesAll ==
  published.op = "publish" =>
    /\ published.invoked = SubscribersOf(published.name)
    /\ published.escaped = "none"
    /\ published.printed =
         Cardinality({i \in DOMAIN published.raised : published.raised[i]})
C18_Witness ==
  /\ published.op = "publish" /\ published.name = "trade_failed"
  /\ published.invoked = <<"h1", "h2">>
  /\ published.raised = <<TRUE, FALSE>>
  /\ SubscribersOf("trade_initiated") = <<"h2", "h2">>

\* C19: there is one Config instance and one map; a value set stays the
\* value of its key until it is set again or reload() is called, whoever
\* constructs Config() or reads in between; reload() discards the set
\* values and restores the environment-derived defaults.
C19_ConfigSingleton ==
  /\ cfgLast.instance \in {"None", cfgInstance}
  /\ cfgInstance \in {"None", "instance1"}
  /\ \A k \in ConfigKeys :
       cfgSet[k] # Absent =>
         /\ k \in DOMAIN cfgConfig /\ cfgConfig[k] = cfgSet[k]
         /\ (cfgLast.op = "get" /\ cfgLast.key = k) => cfgLast.value = cfgSet[k]
  /\ cfgLast.op = "reload" =>
       /\ DOMAIN cfgConfig = EnvKeys
       /\ \A k \in EnvKeys : cfgConfig[k] = Getenv(environ, k)
C19_Witness ==
  /\ cfgLast.op = "get" /\ cfgLast.key = "DEFAULT_TOKEN_DECIMALS"
  /\ cfgSet["DEFAULT_TOKEN_DECIMALS"] = 0 /\ cfgLast.value = 0
  /\ environ["DEFAULT_TOKEN_DECIMALS"] = 50

\* C20: the quote request carries the caller's slippage_bps whenever one is
\* passed, 0 included, and DEFAULT_SLIPPAGE_BPS only when it is omitted.
C20_CallerSlippageUsed ==
  quote_url.called =>
    IF quote_url.arg = Absent
    THEN quote_url.slippageBps = quote_url.default
    ELSE quote_url.slippageBps = quote_url.arg

Range(f) == {f[i] : i \in DOMAIN f}
\* the list a subscriber map holds for a name, empty when it holds none
ListOf(subs, n) == IF n \in DOMAIN subs THEN subs[n] ELSE <<>>

\* C26: unsubscribe(name, h) removes every subscription of h under name and
\* keeps the other handlers of name in their order; it adds no event name
\* and leaves the lists of the other names as they were; it changes nothing
\* when h is not subscribed under name; and publish invokes no handler that
\* is not subscribed to the published name at that moment.
C26_UnsubscribeFrame ==
  [][/\ published'.op = "unsubscribe" =>
          LET name == published'.name
              h == published'.invoked[1]
              Kept(x) == x # h
          IN /\ ListOf(subscribers', name) = SelectSeq(SubscribersOf(name), Kept)
             /\ DOMAIN subscribers' = DOMAIN subscribers
             /\ \A n \in EventNames \ {name} :
                  ListOf(subscribers', n) = SubscribersOf(n)
             /\ h \notin Range(SubscribersOf(name)) => subscribers' = subscribers
     /\ published'.op = "publish" =>
          Range(published'.invoked) \subseteq Range(SubscribersOf(published'.name))
    ]_vars
C26_Witness ==
  /\ published.op = "unsubscribe" /\ published.name = "trade_failed"
  /\ published.invoked = <<"h1">>
  /\ SubscribersOf("trade_failed") = <<"h2", "h2">>
  /\ SubscribersOf("trade_initiated") = <<"h1", "h2", "h1">>

\* positions of the publications of one event name in the trace
EvPos(name) == {i \in DOMAIN trace : trace[i] = Ev(name)}
\* positions where a call of send_transaction begins
SendCalls ==
  {i \in DOMAIN trace :
     trace[i].kind = "call" /\ trace[i].name = "send_transaction"}
\* positions where a call of send_transaction returns or raises
SendEnds ==
  {i \in DOMAIN trace :
     trace[i].kind \in {"return", "raise"} /\ trace[i].name = "send_transaction"}
\* the last position of the call of send_transaction that begins at c
SendEnd(c) ==
  LET ends == {i \in SendEnds : i > c}
  IN IF ends = {} THEN Len(trace)
     ELSE CHOOSE i \in ends : \A j \in ends : i <= j
InCall(c, name) == {i \in EvPos(name) : c < i /\ i <= SendEnd(c)}

\* C21: a call of send_transaction publishes transaction_sending first,
\* transaction_submitted right after the network took the submission and
\* transaction_confirmed right after the confirmation came back; a call
\* that ended published exactly one of transaction_confirmed and
\* transaction_failed; it returns the signature right after
\* transaction_confirmed, and right after transaction_failed it raises
\* the exception the network call raised, transaction_submitted coming
\* before transaction_failed when the confirmation failed.
C21_SendTransactionEvents ==
  \A c \in SendCalls :
    LET e == SendEnd(c)
        ended == e \in SendEnds
        sub == InCall(c, "transaction_submitted")
        conf == InCall(c, "transaction_confirmed")
        fail == InCall(c, "transaction_failed")
    IN /\ trace[c + 1] = Ev("transaction_sending")
       /\ InCall(c, "transaction_sending") = {c + 1}
       /\ \A i \in sub :
            trace[i - 1] = Answer("send_transaction", trace[c].arg, NoExc)
       /\ \A i \in conf :
            /\ trace[i - 1] = Answer("confirm_transaction", trace[c].arg, NoExc)
            /\ \E j \in sub : j < i
       /\ ended <=> Cardinality(conf \cup fail) = 1
       /\ ~ended => conf \cup fail = {}
       /\ (ended /\ trace[e].kind = "return") =>
            /\ trace[e].arg = trace[c].arg
            /\ conf = {e - 1}
       /\ (ended /\ trace[e].kind = "raise") =>
            /\ fail = {e - 1}
            /\ trace[e - 2].kind = "net"
            /\ trace[e].exc = trace[e - 2].exc /\ trace[e].exc # NoExc
            /\ trace[e - 2].name = "confirm_transaction" =>
                 \E j \in sub : j < e - 1
C21_Witness ==
  /\ opsCall.op = "send_transaction" /\ opsResult.kind = "raised"
  /\ opsResult.exc = Exc("RPCException", <<"timed out">>)
  /\ EvPos("transaction_submitted") # {} /\ EvPos("transaction_failed") # {}

TradeTerminals == EvPos("trade_completed") \cup EvPos("trade_failed")
\* C22: a call of execute_trade publishes trade_initiated before anything
\* else and, once ended, exactly one of trade_completed and trade_failed;
\* trade_completed comes after transaction_confirmed and right before the
\* TradeResult is returned; trade_failed comes right before the exception
\* that failed the call is raised again; a quote or swap status other than
\* 200 fails the call with no transaction_sending published.
C22_TradeEvents ==
  opsCall.op = "execute_trade" =>
    /\ trace[1] = Called("execute_trade", "none")
    /\ trace[2] = Ev("trade_initiated")
    /\ EvPos("trade_initiated") = {2}
    /\ IF opsPc = "done" THEN Cardinality(TradeTerminals) = 1
       ELSE TradeTerminals = {} /\ opsResult = NoResult
    /\ \A i \in EvPos("trade_completed") :
         /\ \E c \in EvPos("transaction_confirmed") : c < i
         /\ i + 1 = Len(trace)
         /\ trace[i + 1] = Returned("execute_trade", "TradeResult")
         /\ opsResult = ResultReturned(<<"TradeResult">>)
    /\ \A i \in EvPos("trade_failed") :
         /\ i + 1 = Len(trace)
         /\ trace[i + 1].kind = "raise" /\ trace[i + 1].name = "execute_trade"
         /\ opsResult = ResultRaised(trace[i + 1].exc)
         /\ IF trace[i - 1].exc # NoExc
            THEN trace[i + 1].exc = trace[i - 1].exc
            ELSE trace[i + 1].exc.type \in
                   {"QuoteError", "SwapError", "ValueError", "KeyError"}
         /\ trace[i + 1].exc.type \in {"QuoteError", "SwapError"} =>
              EvPos("transaction_sending") = {}
C22_Witness ==
  /\ opsCall.op = "execute_trade" /\ opsPc = "done"
  /\ opsResult.exc.type = "SwapError"
  /\ EvPos("trade_quote_received") # {} /\ EvPos("trade_failed") # {}

SaysInsufficientFunds(msg) ==
  \E i \in DOMAIN msg : msg[i] \in {"insufficient funds", "Insufficient Funds"}
SaysAccountNotFound(msg) == \E i \in DOMAIN msg : msg[i] = "Account not found"
\* the message of the exception that failed the transfer
TransferFailure ==
  LET f == CHOOSE i \in EvPos("transfer_failed") : TRUE
  IN IF trace[f - 1].exc # NoExc THEN trace[f - 1].exc.msg ELSE <<>>

\* C23: a failing transfer publishes transfer_failed right before it raises
\* and never publishes transfer_completed; it raises InsufficientFundsError
\* when the failure message says "insufficient funds" in any case,
\* otherwise AccountNotFoundError when it says "Account not found" in
\* exactly that case, otherwise TransactionError.
C23_TransferErrors ==
  (opsCall.op = "transfer" /\ opsResult.kind = "raised") =>
    /\ EvPos("transfer_failed") = {Len(trace) - 1}
    /\ trace[Len(trace)] = Raised("transfer", opsResult.exc)
    /\ EvPos("transfer_completed") = {}
    /\ opsResult.exc.type =
         IF SaysInsufficientFunds(TransferFailure) THEN "InsufficientFundsError"
         ELSE IF SaysAccountNotFound(TransferFailure)
         THEN "AccountNotFoundError"
         ELSE "TransactionError"
C23_Witness ==
  /\ opsCall.op = "transfer" /\ opsResult.kind = "raised"
  /\ TransferFailure = <<"Account not found", "Insufficient Funds">>
  /\ opsResult.exc.type = "InsufficientFundsError"

TransferTerminals == EvPos("transfer_completed") \cup EvPos("transfer_failed")
\* C24: transfer_started is published only when the destination and the
\* mint were parsed; a call whose address does not parse publishes
\* transfer_failed and no transfer_started; every other call publishes
\* transfer_started first, before its terminal event.
C24_TransferStarted ==
  opsCall.op = "transfer" =>
    IF opsCall.destination = BadAddress \/ opsCall.mint = BadAddress
    THEN /\ EvPos("transfer_started") = {}
         /\ EvPos("transfer_failed") = {2} /\ EvPos("transfer_completed") = {}
         /\ opsResult.kind = "raised"
    ELSE /\ EvPos("transfer_started") = {2}
         /\ \A t \in TransferTerminals : t > 2
         /\ opsPc = "done" => Cardinality(TransferTerminals) = 1
C24_Witness ==
  /\ opsCall.op = "transfer" /\ opsCall.destination = "address1"
  /\ opsCall.mint = BadAddress
  /\ trace[2] = Ev("transfer_failed") /\ opsPc = "done"

\* the mints burn_and_close_account was called with, in call order
BurnCalls ==
  LET IsBurn(x) == x.kind = "call" /\ x.name = "burn_and_close_account"
      burns == SelectSeq(trace, IsBurn)
  IN [i \in DOMAIN burns |-> burns[i].arg]
\* the transactions the network confirmed, in order
Confirmations ==
  LET IsConfirmation(x) ==
        x = Answer("confirm_transaction", x.arg, NoExc)
      answers == SelectSeq(trace, IsConfirmation)
  IN [i \in DOMAIN answers |-> answers[i].arg]

\* C25: burn_and_close_multiple takes the mints in list order, one after
\* the confirmation of the one before; when all succeed it returns one
\* signature per mint in that order; at the first failing mint it raises
\* AccountError, calls no later mint, returns no signature, and the
\* accounts confirmed closed before stay closed.
C25_BurnInOrder ==
  opsCall.op = "burn_and_close_multiple" =>
    /\ Len(BurnCalls) <= Len(opsCall.mints)
    /\ BurnCalls = SubSeq(opsCall.mints, 1, Len(BurnCalls))
    /\ Len(BurnCalls) <= Len(Confirmations) + 1
    /\ signatures = Confirmations
    /\ Confirmations = SubSeq(opsCall.mints, 1, Len(Confirmations))
    /\ opsResult.kind = "returned" =>
         /\ opsResult.value = opsCall.mints
         /\ BurnCalls = opsCall.mints
    /\ opsResult.kind = "raised" =>
         /\ opsResult.exc.type = "AccountError"
         /\ opsResult.value = <<>>
         /\ Len(BurnCalls) = Len(Confirmations) + 1
    /\ opsPc = "done" => opsResult.kind \in {"returned", "raised"}
C25_Witness ==
  /\ opsCall.op = "burn_and_close_multiple"
  /\ opsCall.mints = <<"mint2", "mint1">>
  /\ Confirmations = <<"mint2">> /\ opsResult.kind = "raised"
  /\ opsResult.exc = Exc("AccountError", <<"timed out">>)
====
